---- MODULE Spec2Model ----
(***************************************************************************)
(* The vote ledger of the grant-votes backend (app/routes.py,              *)
(* app/models.py).  Identifiers are sequences of one-character strings,    *)
(* the votes table is the sequence of its rows in storage order, and each  *)
(* request runs in its own ORM session: the handler's query and its        *)
(* commit are two steps, so that requests of different workers interleave  *)
(* between them.                                                           *)
(***************************************************************************)
EXTENDS Integers, Sequences, FiniteSets, Bags, TLC

\* ------------------------------------------------------------------ bounds
MaxClock == 1       \* latest reading of either clock
NumWorkers == 2     \* requests handled concurrently
MaxLimit == 3       \* largest ?limit= tried on /votes/top

\* Python's None in a string-typed slot.
None == "None"

\* ------------------------------------------------------ characters, unquote
UpperCase ==
  {"A","B","C","D","E","F","G","H","I","J","K","L","M",
   "N","O","P","Q","R","S","T","U","V","W","X","Y","Z"}

LowerCase ==
  {"a","b","c","d","e","f","g","h","i","j","k","l","m",
   "n","o","p","q","r","s","t","u","v","w","x","y","z"}

Digits == {"0","1","2","3","4","5","6","7","8","9"}

\* [A-Za-z0-9_-]
GrantIdChars == UpperCase \cup LowerCase \cup Digits \cup {"_", "-"}

\* [A-Za-z0-9 ,'-]
ResearcherIdChars == UpperCase \cup LowerCase \cup Digits \cup {" ", ",", "'", "-"}

\* The printable ASCII characters, code 32 first (code 96 is spelled out).
Ascii ==
  <<" ","!","\"","#","$","%","&","'","(",")","*","+",",","-",".","/",
    "0","1","2","3","4","5","6","7","8","9",":",";","<","=",">","?",
    "@","A","B","C","D","E","F","G","H","I","J","K","L","M","N","O",
    "P","Q","R","S","T","U","V","W","X","Y","Z","[","\\","]","^","_",
    "<grave>","a","b","c","d","e","f","g","h","i","j","k","l","m","n","o",
    "p","q","r","s","t","u","v","w","x","y","z","{","|","}","~">>

HexDigits ==
  Digits \cup {"A","B","C","D","E","F","a","b","c","d","e","f"}

HexVal(c) ==
  CASE c \in Digits -> (CHOOSE i \in 0..9 : Ascii[17 + i] = c)
    [] c \in {"A","a"} -> 10
    [] c \in {"B","b"} -> 11
    [] c \in {"C","c"} -> 12
    [] c \in {"D","d"} -> 13
    [] c \in {"E","e"} -> 14
    [] c \in {"F","f"} -> 15

\* The character a decoded byte stands for; bytes outside printable ASCII
\* other than the line feed are kept apart under one name, none of them is
\* in a character class.
Chr(code) ==
  IF code >= 32 /\ code <= 126 THEN Ascii[code - 31]
  ELSE IF code = 10 THEN "\n"
  ELSE "<non-printable>"

\* urllib.parse.unquote: every %XX with two hex digits becomes the byte XX,
\* a % not followed by two hex digits stays as it is.
RECURSIVE unquote(_)
unquote(s) ==
  IF s = <<>> THEN <<>>
  ELSE IF s[1] = "%" /\ Len(s) >= 3 /\ s[2] \in HexDigits /\ s[3] \in HexDigits
    THEN <<Chr(16 * HexVal(s[2]) + HexVal(s[3]))>> \o unquote(SubSeq(s, 4, Len(s)))
    ELSE <<s[1]>> \o unquote(Tail(s))

\* re.match(r"^[class]+$", value): one or more characters of the class up to
\* the end of the string, where $ also matches just before a final line feed.
re_match(class, value) ==
  LET n == Len(value)
      core == IF n > 0 /\ value[n] = "\n" THEN SubSeq(value, 1, n - 1) ELSE value
  IN  /\ Len(core) > 0
      /\ \A i \in 1..Len(core) : core[i] \in class

\* validate_id: the decoded value, or HTTP 400.
validate_id(value, name) ==
  LET decoded == unquote(value)
      class == IF name = "researcher_id" THEN ResearcherIdChars ELSE GrantIdChars
  IN  IF re_match(class, decoded)
        THEN [status |-> 200, value |-> decoded]
        ELSE [status |-> 400, value |-> <<>>]

\* ------------------------------------------------------------------ inputs
\* Request values tried: plain ids, a percent-encoded id that decodes to a
\* valid one, and ids with a character outside the class.
GrantInputs == { <<"A">>, <<"%","4","1">>, <<"A","!">> }

ResearcherInputs == { <<"R">>, <<"R",";">> }

ActionInputs == { "like", "dislike", "love" }

\* -------------------------------------------------------------------- state
VARIABLES
  votes,      \* the votes table: rows [grant_id, researcher_id, action, timestamp]
  inflight,   \* the ORM sessions of the requests between their query and commit
  now_db,     \* the database server's clock: the latest reading of func.now()
  now_app,    \* the application's clock: the latest reading of datetime.utcnow()
  last,       \* the response produced last
  committed,  \* per pair written so far: the last successfully committed write
  subscriptions,        \* the subscriptions table: rows [researcher_name, email]
  researcher_requests,  \* the researcher_requests table: rows [openalex_id, ...]
  notifications         \* the notification threads started so far

vars == <<votes, inflight, now_db, now_app, last, committed,
          subscriptions, researcher_requests, notifications>>

\* The state outside the vote ledger, and the vote ledger's own.
collaborators == <<subscriptions, researcher_requests, notifications>>

ledger == <<votes, now_db, now_app, committed>>

\* A response: op names the handler, status is the HTTP status, body the
\* detail of an error or the value returned.
Response(op, status, g, r, body) ==
  [op |-> op, status |-> status, grant_id |-> g, researcher_id |-> r, body |-> body]

\* db.query(Vote).filter(grant_id == g, researcher_id == r): the positions
\* of the matching rows, in storage order.
Matching(tbl, g, r) ==
  { i \in 1..Len(tbl) : tbl[i].grant_id = g /\ tbl[i].researcher_id = r }

Min(S) == CHOOSE x \in S : \A y \in S : x <= y

\* .first(): the first matching row as a one-element tuple, or <<>>.
First(tbl, g, r) ==
  IF Matching(tbl, g, r) = {} THEN <<>> ELSE << tbl[Min(Matching(tbl, g, r))] >>

RemoveAt(tbl, i) == SubSeq(tbl, 1, i - 1) \o SubSeq(tbl, i + 1, Len(tbl))

\* The write committed last on a pair: an action, "deleted", or "none".
Committed(g, r) ==
  IF <<g, r>> \in DOMAIN committed THEN committed[<<g, r>>] ELSE "none"

\* committed after the commit of write w on the pair.
Commit(g, r, w) ==
  [p \in DOMAIN committed \cup {<<g, r>>} |->
     IF p = <<g, r>> THEN w ELSE committed[p]]

Begin(s) == inflight (+) SetToBag({s})

End(s) == inflight (-) SetToBag({s})

Init ==
  /\ votes = <<>>
  /\ inflight = EmptyBag
  /\ now_db = 0
  /\ now_app = 0
  /\ last = Response("none", 0, <<>>, <<>>, "")
  /\ subscriptions = <<>>
  /\ researcher_requests = <<>>
  /\ notifications = <<>>
  /\ committed = <<>>

\* ------------------------------------------------------------- record_vote
\* Lines 44-60: validation, the lookup and the change made in the session.
\* The validated values are dropped: the request's own strings go on.
record_vote_begin(g, r, a) ==
  /\ BagCardinality(inflight) < NumWorkers
  /\ IF validate_id(g, "grant_id").status = 400
       THEN /\ last' = Response("record_vote", 400, <<>>, <<>>, "Invalid grant_id")
            /\ UNCHANGED <<inflight, now_app>>
     ELSE IF validate_id(r, "researcher_id").status = 400
       THEN /\ last' = Response("record_vote", 400, <<>>, <<>>, "Invalid researcher_id")
            /\ UNCHANGED <<inflight, now_app>>
     ELSE IF a \notin {"like", "dislike"}
       THEN /\ last' = Response("record_vote", 400, <<>>, <<>>, "Invalid action")
            /\ UNCHANGED <<inflight, now_app>>
     ELSE LET existing == First(votes, g, r) IN
          IF existing # <<>>
            THEN \E t \in now_app..MaxClock :      \* datetime.utcnow()
                   /\ now_app' = t
                   /\ inflight' = Begin(
                        [op |-> "record_vote", grant_id |-> g, researcher_id |-> r,
                         action |-> a,
                         existing |-> <<[action |-> existing[1].action]>>,
                         timestamp |-> t])
                   /\ UNCHANGED last
            ELSE /\ inflight' = Begin(
                      [op |-> "record_vote", grant_id |-> g, researcher_id |-> r,
                       action |-> a, existing |-> <<>>, timestamp |-> 0])
                 /\ UNCHANGED <<last, now_app>>
  /\ UNCHANGED <<votes, now_db, committed>>
  /\ UNCHANGED collaborators

\* The UPDATE the unit of work flushes for a loaded row: an attribute is in
\* its SET clause only when the value assigned differs from the value loaded.
\* The timestamp assigned is a fresh microsecond reading of the clock and is
\* taken to differ from the loaded one, so it is always written; the action
\* is written only when it is not the action the session loaded.
FlushUpdate(row, loaded, action, timestamp) ==
  [row EXCEPT !.action = IF action # loaded.action THEN action ELSE @,
              !.timestamp = timestamp]

\* The composite primary key (grant_id, researcher_id) of the votes table:
\* an INSERT of a pair that already has a row is rejected.
PrimaryKeyConflict_none(tbl, g, r) == FALSE

PrimaryKeyConflict(tbl, g, r) == Matching(tbl, g, r) # {}

\* What the flush of session s raises: StaleDataError when the UPDATE of the
\* loaded row matches no row, IntegrityError when the INSERT meets the key.
FlushError(tbl, s) ==
  IF s.existing # <<>>
    THEN IF Matching(tbl, s.grant_id, s.researcher_id) = {}
           THEN "StaleDataError" ELSE "none"
    ELSE IF PrimaryKeyConflict(tbl, s.grant_id, s.researcher_id)
           THEN "IntegrityError" ELSE "none"

\* The table after the flush of session s: the UPDATE of the loaded row, or
\* the INSERT of the new one, whose timestamp is the server default t.
Flush(tbl, s, t) ==
  IF s.existing # <<>>
    THEN [tbl EXCEPT ![Min(Matching(tbl, s.grant_id, s.researcher_id))] =
            FlushUpdate(@, s.existing[1], s.action, s.timestamp)]
    ELSE Append(tbl, [grant_id |-> s.grant_id, researcher_id |-> s.researcher_id,
                      action |-> s.action, timestamp |-> t])

\* A commit that fails ends the transaction without its changes: the table
\* is the one before the flush.
Rollback_none(before, flushed) == flushed

Rollback(before, flushed) == before

\* Line 61, db.commit(): the flush and the commit.  The flush may raise, and
\* the store may fail at any point of it.
record_vote_commit(s) ==
  LET g == s.grant_id
      r == s.researcher_id
      error == FlushError(votes, s)
  IN
  /\ BagIn(s, inflight)
  /\ s.op = "record_vote"
  /\ inflight' = End(s)
  /\ \/ /\ error # "none"
        /\ votes' = Rollback(votes, votes)
        /\ last' = Response("record_vote", 500, g, r, error)
        /\ UNCHANGED <<committed, now_db>>
     \/ /\ error = "none"
        /\ \E t \in now_db..MaxClock :             \* func.now()
             /\ t = now_db \/ s.existing = <<>>    \* read by the INSERT only
             /\ now_db' = t
             /\ \/ /\ votes' = Flush(votes, s, t)
                   /\ committed' = Commit(g, r, s.action)
                   /\ last' = Response("record_vote", 200, g, r, s.action)
                \/ /\ votes' = Rollback(votes, Flush(votes, s, t))
                   /\ last' = Response("record_vote", 500, g, r, "StorageFailure")
                   /\ UNCHANGED committed
  /\ UNCHANGED now_app
  /\ UNCHANGED collaborators

\* ------------------------------------------------------------- delete_vote
\* Lines 67-79: validation, the lookup, 404 when there is no row.
delete_vote_begin(g, r) ==
  /\ BagCardinality(inflight) < NumWorkers
  /\ IF validate_id(g, "grant_id").status = 400
       THEN /\ last' = Response("delete_vote", 400, <<>>, <<>>, "Invalid grant_id")
            /\ UNCHANGED inflight
     ELSE IF validate_id(r, "researcher_id").status = 400
       THEN /\ last' = Response("delete_vote", 400, <<>>, <<>>, "Invalid researcher_id")
            /\ UNCHANGED inflight
     ELSE IF First(votes, g, r) = <<>>
       THEN /\ last' = Response("delete_vote", 404, g, r, "Vote not found")
            /\ UNCHANGED inflight
     ELSE /\ inflight' = Begin(
               [op |-> "delete_vote", grant_id |-> g, researcher_id |-> r,
                action |-> None, existing |-> <<>>, timestamp |-> 0])
          /\ UNCHANGED last
  /\ UNCHANGED <<votes, now_db, now_app, committed>>
  /\ UNCHANGED collaborators

\* The DELETE of the row by primary key that the flush issues for
\* db.delete(vote); a DELETE that matches no row is only warned about.
DeleteRow_none(tbl, g, r) == tbl

DeleteRow_researcher(tbl, g, r) ==
  SelectSeq(tbl, LAMBDA v : v.researcher_id # r)

DeleteRow(tbl, g, r) ==
  IF Matching(tbl, g, r) = {} THEN tbl ELSE RemoveAt(tbl, Min(Matching(tbl, g, r)))

\* Line 80, db.commit(): the flush and the commit; the store may fail.
delete_vote_commit(s) ==
  LET g == s.grant_id
      r == s.researcher_id
  IN
  /\ BagIn(s, inflight)
  /\ s.op = "delete_vote"
  /\ inflight' = End(s)
  /\ \/ /\ last' = Response("delete_vote", 500, g, r, "StorageFailure")
        /\ UNCHANGED <<votes, committed>>
     \/ /\ votes' = DeleteRow(votes, g, r)
        /\ committed' = Commit(g, r, "deleted")
        /\ last' = Response("delete_vote", 200, g, r, "deleted")
  /\ UNCHANGED <<now_db, now_app>>
  /\ UNCHANGED collaborators

\* ------------------------------------------------------------ point lookup
\* get_researcher_vote, lines 102-110.
get_researcher_vote(g, r) ==
  /\ IF validate_id(g, "grant_id").status = 400
       THEN last' = Response("get_researcher_vote", 400, <<>>, <<>>, "Invalid grant_id")
     ELSE IF validate_id(r, "researcher_id").status = 400
       THEN last' = Response("get_researcher_vote", 400, <<>>, <<>>, "Invalid researcher_id")
     ELSE LET vote == First(votes, g, r) IN
          last' = Response("get_researcher_vote", 200, g, r,
                           IF vote # <<>> THEN vote[1].action ELSE None)
  /\ UNCHANGED <<votes, inflight, now_db, now_app, committed>>
  /\ UNCHANGED collaborators

\* ------------------------------------------------------------- aggregation
\* func.sum(case((Vote.action == a, 1), else_=0)) over the rows at positions
\* idx: SQL's SUM of no row is NULL, written <<>>; a sum n is <<n>>.
RECURSIVE SumCase(_, _, _)
SumCase(tbl, idx, a) ==
  IF idx = {} THEN <<>>
  ELSE LET i == Min(idx)
           rest == SumCase(tbl, idx \ {i}, a)
           one == IF tbl[i].action = a THEN 1 ELSE 0
       IN  << one + (IF rest = <<>> THEN 0 ELSE rest[1]) >>

\* x or 0
OrZero(x) == IF x = <<>> THEN 0 ELSE x[1]

\* .filter(Vote.grant_id == g)
OfGrant(tbl, g) == { i \in 1..Len(tbl) : tbl[i].grant_id = g }

\* get_grant_votes, lines 85-93: the rows of the grant counted in Python.
get_grant_votes(g) ==
  /\ IF validate_id(g, "grant_id").status = 400
       THEN last' = Response("get_grant_votes", 400, <<>>, <<>>, "Invalid grant_id")
       ELSE last' = Response("get_grant_votes", 200, g, <<>>,
                      [likes |-> Cardinality({ i \in OfGrant(votes, g) : votes[i].action = "like" }),
                       dislikes |-> Cardinality({ i \in OfGrant(votes, g) : votes[i].action = "dislike" })])
  /\ UNCHANGED <<votes, inflight, now_db, now_app, committed>>
  /\ UNCHANGED collaborators

\* .group_by(Vote.grant_id): one result row per grant_id of the table.
GroupBy(tbl) ==
  { [grant_id |-> g,
     likes |-> OrZero(SumCase(tbl, OfGrant(tbl, g), "like")),
     dislikes |-> OrZero(SumCase(tbl, OfGrant(tbl, g), "dislike"))]
    : g \in { tbl[i].grant_id : i \in 1..Len(tbl) } }

\* The arrangements of a set of result rows in a sequence.
Arrangements(S) ==
  { q \in [1..Cardinality(S) -> S] : \A i, j \in 1..Cardinality(S) : q[i] = q[j] => i = j }

\* .order_by(likes_agg.desc()): the store returns the groups with likes
\* falling; the order among equal likes is the store's choice.
OrderByLikesDesc_none(S) == Arrangements(S)

OrderByLikesDesc(S) ==
  { q \in Arrangements(S) : \A i, j \in 1..Cardinality(S) : i < j => q[i].likes >= q[j].likes }

\* .limit(n)
Limit(q, n) == SubSeq(q, 1, IF n < Len(q) THEN n ELSE Len(q))

\* get_top_grants, lines 127-147.
get_top_grants(limit) ==
  /\ \E q \in OrderByLikesDesc(GroupBy(votes)) :
       last' = Response("get_top_grants", 200, <<>>, <<>>,
                        [limit |-> limit, rows |-> Limit(q, limit)])
  /\ UNCHANGED <<votes, inflight, now_db, now_app, committed>>
  /\ UNCHANGED collaborators

\* Python's float, kept as the exact fraction num/den in lowest terms; den 0
\* stands for the ZeroDivisionError of a division by zero.
RECURSIVE Gcd(_, _)
Gcd(a, b) == IF b = 0 THEN a ELSE Gcd(b, a % b)

Fraction(n, d) ==
  IF d = 0 THEN [num |-> 0, den |-> 0]
  ELSE IF n = 0 THEN [num |-> 0, den |-> 1]
  ELSE [num |-> n \div Gcd(n, d), den |-> d \div Gcd(n, d)]

\* (count / total * 100) if total else 0.0
Percentage_unguarded(count, total) == Fraction(count * 100, total)

Percentage(count, total) ==
  IF total # 0 THEN Fraction(count * 100, total) ELSE Fraction(0, 1)

\* vote_ratio, lines 151-168.
vote_ratio(g) ==
  /\ IF validate_id(g, "grant_id").status = 400
       THEN last' = Response("vote_ratio", 400, <<>>, <<>>, "Invalid grant_id")
       ELSE LET likes == OrZero(SumCase(votes, OfGrant(votes, g), "like"))
                dislikes == OrZero(SumCase(votes, OfGrant(votes, g), "dislike"))
                total == likes + dislikes
                like_pct == Percentage(likes, total)
                dislike_pct == Percentage(dislikes, total)
            IN  IF like_pct.den = 0 \/ dislike_pct.den = 0
                  THEN last' = Response("vote_ratio", 500, g, <<>>, "ZeroDivisionError")
                  ELSE last' = Response("vote_ratio", 200, g, <<>>,
                                 [likes |-> likes, dislikes |-> dislikes,
                                  like_percentage |-> like_pct,
                                  dislike_percentage |-> dislike_pct])
  /\ UNCHANGED <<votes, inflight, now_db, now_app, committed>>
  /\ UNCHANGED collaborators

\* ------------------------------------------------------------------ export
\* The column names, as the keys of the JSON objects and the CSV header.
K_grant_id == <<"g","r","a","n","t","_","i","d">>

K_researcher_id == <<"r","e","s","e","a","r","c","h","e","r","_","i","d">>

K_action == <<"a","c","t","i","o","n">>

K_timestamp == <<"t","i","m","e","s","t","a","m","p">>

\* The characters of a stored action.
ActionChars(a) ==
  IF a = "like" THEN <<"l","i","k","e">> ELSE IF a = "dislike" THEN <<"d","i","s","l","i","k","e">> ELSE <<a>>

\* datetime.isoformat() of the clock reading t, second t of 2024-01-01.
isoformat(t) ==
  <<"2","0","2","4","-","0","1","-","0","1","T","0","0",":","0","0",":">> \o <<Ascii[17 + (t \div 10)], Ascii[17 + (t % 10)]>>

RECURSIVE Concat(_)
Concat(chunks) ==
  IF chunks = <<>> THEN <<>> ELSE Head(chunks) \o Concat(Tail(chunks))

\* json.dumps of a str: in double quotes, with the quote, the backslash and
\* the control characters escaped.
RECURSIVE JsonEscape(_)
JsonEscape(str) ==
  IF str = <<>> THEN <<>>
  ELSE (CASE Head(str) = "\"" -> <<"\\", "\"">>
          [] Head(str) = "\\" -> <<"\\", "\\">>
          [] Head(str) = "\n" -> <<"\\", "n">>
          [] Head(str) = "\r" -> <<"\\", "r">>
          [] OTHER -> <<Head(str)>>) \o JsonEscape(Tail(str))

JsonString(str) == <<"\"">> \o JsonEscape(str) \o <<"\"">>

\* json.dumps({"grant_id": ..., "researcher_id": ..., "action": ...,
\* "timestamp": v.timestamp.isoformat()}), lines 210-217.
json_dumps(v) ==
  <<"{">> \o JsonString(K_grant_id) \o <<":", " ">> \o JsonString(v.grant_id)
  \o <<",", " ">> \o JsonString(K_researcher_id) \o <<":", " ">> \o JsonString(v.researcher_id)
  \o <<",", " ">> \o JsonString(K_action) \o <<":", " ">> \o JsonString(ActionChars(v.action))
  \o <<",", " ">> \o JsonString(K_timestamp) \o <<":", " ">> \o JsonString(isoformat(v.timestamp))
  \o <<"}">>

\* iter_votes_json, lines 204-219: the chunks yielded for the rows from
\* position i on.
RECURSIVE iter_votes_json_from(_, _)
iter_votes_json_from(tbl, i) ==
  IF i > Len(tbl) THEN << <<"]">> >>
  ELSE (IF i > 1 THEN << <<",">> >> ELSE <<>>)
       \o << json_dumps(tbl[i]) >> \o iter_votes_json_from(tbl, i + 1)

iter_votes_json(tbl) == << <<"[">> >> \o iter_votes_json_from(tbl, 1)

\* export_json, lines 203-221: db.query(Vote) streamed in storage order.
export_json ==
  /\ last' = Response("export_json", 200, <<>>, <<>>, iter_votes_json(votes))
  /\ UNCHANGED <<votes, inflight, now_db, now_app, committed>>
  /\ UNCHANGED collaborators

\* csv.writer's field: quoted, with its quotes doubled, when it holds the
\* delimiter, the quote character or a character of the line terminator.
RECURSIVE DoubleQuotes(_)
DoubleQuotes(f) ==
  IF f = <<>> THEN <<>>
  ELSE (IF Head(f) = "\"" THEN <<"\"", "\"">> ELSE <<Head(f)>>) \o DoubleQuotes(Tail(f))

CsvField_unquoted(f) == f

CsvField(f) ==
  IF \E k \in 1..Len(f) : f[k] \in {",", "\"", "\r", "\n"}
    THEN <<"\"">> \o DoubleQuotes(f) \o <<"\"">>
    ELSE f

\* writer.writerow(fields): the fields joined by commas, then \r\n.
RECURSIVE writerow(_)
writerow(fields) ==
  IF Len(fields) = 1 THEN CsvField(fields[1]) \o <<"\r", "\n">>
  ELSE CsvField(fields[1]) \o <<",">> \o writerow(Tail(fields))

\* iter_votes_csv, lines 226-238: the header, then one chunk per row.
iter_votes_csv(tbl) ==
  << writerow(<<K_grant_id, K_researcher_id, K_action, K_timestamp>>) >>
  \o [i \in 1..Len(tbl) |->
        writerow(<<tbl[i].grant_id, tbl[i].researcher_id,
                   ActionChars(tbl[i].action), isoformat(tbl[i].timestamp)>>)]

\* export_csv, lines 225-241.
export_csv ==
  /\ last' = Response("export_csv", 200, <<>>, <<>>, iter_votes_csv(votes))
  /\ UNCHANGED <<votes, inflight, now_db, now_app, committed>>
  /\ UNCHANGED collaborators

\* ------------------------------------------------- reads by researcher, trend
\* .filter(Vote.researcher_id == r)
OfResearcher(tbl, r) == { i \in 1..Len(tbl) : tbl[i].researcher_id = r }

\* The rows at positions idx, in storage order.
RECURSIVE Rows(_, _)
Rows(tbl, idx) ==
  IF idx = {} THEN <<>> ELSE <<tbl[Min(idx)]>> \o Rows(tbl, idx \ {Min(idx)})

\* get_votes_by_researcher, lines 119-123.
get_votes_by_researcher(r) ==
  /\ IF validate_id(r, "researcher_id").status = 400
       THEN last' = Response("get_votes_by_researcher", 400, <<>>, <<>>, "Invalid researcher_id")
       ELSE last' = Response("get_votes_by_researcher", 200, <<>>, r,
                             Rows(votes, OfResearcher(votes, r)))
  /\ UNCHANGED <<votes, inflight, now_db, now_app, committed>>
  /\ UNCHANGED collaborators

\* .order_by(Vote.timestamp.desc()): the positions idx with timestamps
\* falling; the order among equal timestamps is the store's choice.
OrderByTimestampDesc(tbl, idx) ==
  { q \in [1..Cardinality(idx) -> idx] :
      /\ \A i, j \in 1..Cardinality(idx) : q[i] = q[j] => i = j
      /\ \A i, j \in 1..Cardinality(idx) :
           i < j => tbl[q[i]].timestamp >= tbl[q[j]].timestamp }

\* researcher_summary, lines 172-199.
researcher_summary(r) ==
  /\ IF validate_id(r, "researcher_id").status = 400
       THEN last' = Response("researcher_summary", 400, <<>>, <<>>, "Invalid researcher_id")
       ELSE LET idx == OfResearcher(votes, r)
                total_votes == Cardinality(idx)          \* func.count(Vote.action)
                likes == OrZero(SumCase(votes, idx, "like"))
            IN  \E q \in OrderByTimestampDesc(votes, idx) :
                  last' = Response("researcher_summary", 200, <<>>, r,
                    [total_votes |-> total_votes, likes |-> likes,
                     dislikes |-> total_votes - likes,
                     recent_votes |->
                       [k \in 1..Len(Limit(q, 10)) |->
                          [grant_id |-> votes[q[k]].grant_id, action |-> votes[q[k]].action,
                           timestamp |-> isoformat(votes[q[k]].timestamp)]]])
  /\ UNCHANGED <<votes, inflight, now_db, now_app, committed>>
  /\ UNCHANGED collaborators

\* func.date(Vote.timestamp): the day of a clock reading, the first ten
\* characters of its isoformat.
date(t) == SubSeq(isoformat(t), 1, 10)

\* vote_trend, lines 245-254: the grant's rows counted per day.  The clock
\* readings of the model fall on one day, so the days need no sorting.
vote_trend(g) ==
  /\ IF validate_id(g, "grant_id").status = 400
       THEN last' = Response("vote_trend", 400, <<>>, <<>>, "Invalid grant_id")
       ELSE LET idx == OfGrant(votes, g)
                days == { date(votes[i].timestamp) : i \in idx }
            IN  \E q \in Arrangements(days) :
                  last' = Response("vote_trend", 200, g, <<>>,
                    [k \in 1..Len(q) |->
                       [day |-> q[k],
                        count |-> Cardinality({ i \in idx : date(votes[i].timestamp) = q[k] })]])
  /\ UNCHANGED <<votes, inflight, now_db, now_app, committed>>
  /\ UNCHANGED collaborators

\* func.max(Vote.timestamp): NULL, written <<>>, over no row.
MaxTimestamp(tbl) ==
  IF tbl = <<>> THEN <<>>
  ELSE << CHOOSE t \in { tbl[i].timestamp : i \in 1..Len(tbl) } :
            \A i \in 1..Len(tbl) : tbl[i].timestamp <= t >>

\* health_check, lines 258-298.
health_check ==
  /\ \E q \in OrderByLikesDesc(GroupBy(votes)) :
       last' = Response("health_check", 200, <<>>, <<>>,
         [status |-> "ok",
          total_votes |-> Len(votes),
          unique_grants |-> Cardinality({ votes[i].grant_id : i \in 1..Len(votes) }),
          unique_researchers |-> Cardinality({ votes[i].researcher_id : i \in 1..Len(votes) }),
          top_grant |-> Limit(q, 1),                       \* .first(): <<>> is None
          last_vote_timestamp |->
            IF MaxTimestamp(votes) # <<>> THEN isoformat(MaxTimestamp(votes)[1]) ELSE <<>>])
  /\ UNCHANGED <<votes, inflight, now_db, now_app, committed>>
  /\ UNCHANGED collaborators

\* ------------------------------------------- ledgers of the read-only checks
\* Grants and researchers of the ledgers the aggregations and exports are
\* run on: ids with a percent sign, a comma, an apostrophe and a final line
\* feed among them, all of which record_vote stores.
AggGrants == { <<"A">>, <<"B">>, <<"%","4","1">> }

AggResearchers == << <<"R">>, <<"X",","," ","Y">>, <<"O","'","B">>, <<"R","\n">> >>

\* Likes and dislikes a grant can have from the researchers.
CountPairs ==
  { c \in (0..Len(AggResearchers)) \X (0..Len(AggResearchers)) :
      c[1] + c[2] <= Len(AggResearchers) }

\* The rows of one grant: its first c[1] researchers like it, the next c[2]
\* dislike it.
GrantRows(g, c) ==
  [k \in 1..(c[1] + c[2]) |->
     [grant_id |-> g, researcher_id |-> AggResearchers[k],
      action |-> IF k <= c[1] THEN "like" ELSE "dislike", timestamp |-> 0]]

\* The table with the rows of grant A, then B, then %41, each row stamped
\* with a clock reading.
Ledger(ca, cb, cc) ==
  LET rows == GrantRows(<<"A">>, ca) \o GrantRows(<<"B">>, cb)
                \o GrantRows(<<"%","4","1">>, cc)
  IN  [i \in 1..Len(rows) |-> [rows[i] EXCEPT !.timestamp = i % (MaxClock + 1)]]

InitAgg ==
  /\ \E ca \in CountPairs, cb \in CountPairs, cc \in CountPairs :
       votes = Ledger(ca, cb, cc)
  /\ inflight = EmptyBag
  /\ now_db = MaxClock
  /\ now_app = MaxClock
  /\ last = Response("none", 0, <<>>, <<>>, "")
  /\ subscriptions = <<>>
  /\ researcher_requests = <<>>
  /\ notifications = <<>>
  /\ committed = [p \in { <<votes[i].grant_id, votes[i].researcher_id>> : i \in 1..Len(votes) } |->
                    (CHOOSE v \in { votes[i] : i \in 1..Len(votes) } :
                       <<v.grant_id, v.researcher_id>> = p).action]

\* Grant ids asked about: the stored ones and one outside the class.
AggGrantInputs == AggGrants \cup { <<"A","!">> }

NextAgg ==
  \/ \E g \in AggGrantInputs : get_grant_votes(g)
  \/ \E limit \in 0..MaxLimit : get_top_grants(limit)
  \/ \E g \in AggGrantInputs : vote_ratio(g)

SpecAgg == InitAgg /\ [][NextAgg]_vars

\* ------------------------------------------------- ledgers of the exports
\* The pairs of the ledgers the exports are run on, in storage order.
ExportPairs ==
  << << <<"A">>, <<"R">> >>,
     << <<"%","4","1">>, <<"X",","," ","Y">> >>,
     << <<"A">>, <<"R","\n">> >>,
     << <<"%","4","1">>, <<"O","'","B">> >> >>

\* The table with a row for every pair that has an action in choice, stamped
\* with a clock reading.
RECURSIVE ExportLedger(_, _)
ExportLedger(choice, k) ==
  IF k > Len(ExportPairs) THEN <<>>
  ELSE (IF choice[k] = None THEN <<>>
        ELSE << [grant_id |-> ExportPairs[k][1], researcher_id |-> ExportPairs[k][2],
                 action |-> choice[k], timestamp |-> k % (MaxClock + 1)] >>)
       \o ExportLedger(choice, k + 1)

InitExport ==
  /\ \E choice \in [1..Len(ExportPairs) -> {None, "like", "dislike"}] :
       /\ votes = ExportLedger(choice, 1)
       /\ committed = [p \in { ExportPairs[k] : k \in { j \in 1..Len(ExportPairs) : choice[j] # None } } |->
                         choice[CHOOSE k \in 1..Len(ExportPairs) : ExportPairs[k] = p]]
  /\ inflight = EmptyBag
  /\ now_db = MaxClock
  /\ now_app = MaxClock
  /\ last = Response("none", 0, <<>>, <<>>, "")
  /\ subscriptions = <<>>
  /\ researcher_requests = <<>>
  /\ notifications = <<>>

NextExport ==
  \/ export_json
  \/ export_csv

SpecExport == InitExport /\ [][NextExport]_vars

\* The pairs of the ledgers the routes are run on together, in storage order.
FramePairs ==
  << << <<"A">>, <<"R">> >>,
     << <<"%","4","1">>, <<"R">> >> >>

\* The table with a row for every pair that has an action in choice, stored
\* when the clocks read 0.
RECURSIVE FrameLedger(_, _)
FrameLedger(choice, k) ==
  IF k > Len(FramePairs) THEN <<>>
  ELSE (IF choice[k] = None THEN <<>>
        ELSE << [grant_id |-> FramePairs[k][1], researcher_id |-> FramePairs[k][2],
                 action |-> choice[k], timestamp |-> 0] >>)
       \o FrameLedger(choice, k + 1)

\* A stored ledger, no request in flight, the clocks gone on to MaxClock.
InitFrame ==
  /\ \E choice \in [1..Len(FramePairs) -> {None, "like", "dislike"}] :
       /\ votes = FrameLedger(choice, 1)
       /\ committed = [p \in { FramePairs[k] : k \in { j \in 1..Len(FramePairs) : choice[j] # None } } |->
                         choice[CHOOSE k \in 1..Len(FramePairs) : FramePairs[k] = p]]
  /\ inflight = EmptyBag
  /\ now_db = MaxClock
  /\ now_app = MaxClock
  /\ last = Response("none", 0, <<>>, <<>>, "")
  /\ subscriptions = <<>>
  /\ researcher_requests = <<>>
  /\ notifications = <<>>

\* Every route of the vote ledger: the writes of Next and the reads.
NextFrame ==
  \/ \E g \in GrantInputs, r \in ResearcherInputs, a \in ActionInputs :
       record_vote_begin(g, r, a)
  \/ \E s \in BagToSet(inflight) : record_vote_commit(s)
  \/ \E g \in GrantInputs, r \in ResearcherInputs : delete_vote_begin(g, r)
  \/ \E s \in BagToSet(inflight) : delete_vote_commit(s)
  \/ \E g \in GrantInputs, r \in ResearcherInputs : get_researcher_vote(g, r)
  \/ \E g \in GrantInputs : get_grant_votes(g)
  \/ \E r \in ResearcherInputs : get_votes_by_researcher(r)
  \/ \E limit \in 0..MaxLimit : get_top_grants(limit)
  \/ \E g \in GrantInputs : vote_ratio(g)
  \/ \E r \in ResearcherInputs : researcher_summary(r)
  \/ export_json
  \/ export_csv
  \/ \E g \in GrantInputs : vote_trend(g)
  \/ health_check

SpecFrame == InitFrame /\ [][NextFrame]_vars

\* ------------------------------------------------------------ subscriptions
\* Values of SubscriptionCreate the handler receives: any str as the name, an
\* address EmailStr has accepted.
NameInputs == { <<"A">>, <<"%","4","1">> }

EmailInputs == { <<"a","@","x",".","i","o">>, <<"b","@","x",".","i","o">> }

\* db.query(Subscription).filter(researcher_name == name, email == email):
\* the positions of the matching rows.
MatchingSubscription(tbl, name, email) ==
  { i \in 1..Len(tbl) : tbl[i].researcher_name = name /\ tbl[i].email = email }

\* UniqueConstraint('researcher_name', 'email'): an INSERT of a pair that
\* already has a row is rejected.
uq_researcher_email(tbl, name, email) == MatchingSubscription(tbl, name, email) # {}

\* create_subscription, lines 332-344: the lookup, the answer for a pair that
\* has a row, else the new row added to the session.  The row's id and
\* created_at, which no handler modelled here reads, are left out.
create_subscription_begin(name, email) ==
  /\ BagCardinality(inflight) < NumWorkers
  /\ IF MatchingSubscription(subscriptions, name, email) # {}
       THEN /\ last' = Response("create_subscription", 200, <<>>, <<>>, "already_subscribed")
            /\ UNCHANGED inflight
       ELSE /\ inflight' = Begin([op |-> "create_subscription",
                                  researcher_name |-> name, email |-> email])
            /\ UNCHANGED last
  /\ UNCHANGED <<subscriptions, researcher_requests, notifications>>
  /\ UNCHANGED ledger

\* create_subscription, lines 345-346: db.commit() and the answer.  The
\* IntegrityError of the INSERT is not caught and the request answers 500; the
\* store may fail for reasons of its own; the handler calls no notifier.
create_subscription_commit(s) ==
  /\ BagIn(s, inflight)
  /\ s.op = "create_subscription"
  /\ inflight' = End(s)
  /\ \/ /\ uq_researcher_email(subscriptions, s.researcher_name, s.email)
        /\ last' = Response("create_subscription", 500, <<>>, <<>>, "IntegrityError")
        /\ UNCHANGED subscriptions
     \/ /\ ~uq_researcher_email(subscriptions, s.researcher_name, s.email)
        /\ subscriptions' = Append(subscriptions,
             [researcher_name |-> s.researcher_name, email |-> s.email])
        /\ last' = Response("create_subscription", 200, <<>>, <<>>, "success")
     \/ /\ last' = Response("create_subscription", 500, <<>>, <<>>, "StorageFailure")
        /\ UNCHANGED subscriptions
  /\ UNCHANGED <<researcher_requests, notifications>>
  /\ UNCHANGED ledger

\* ------------------------------------------------------ researcher requests
\* Values of ResearcherRequestCreate the handler receives.
OpenAlexInputs == { <<"W","1">>, <<"W","2">> }

RequesterEmailInputs == { <<>>, <<"a","@","x",".","i","o">> }

ResearcherRequestInputs ==
  { [openalex_id |-> o, display_name |-> <<"N">>, institution |-> <<>>,
     works_count |-> 0, requester_email |-> e] :
      o \in OpenAlexInputs, e \in RequesterEmailInputs }

\* db.query(ResearcherRequest).filter(openalex_id == id).
MatchingRequest(tbl, openalex_id) ==
  { i \in 1..Len(tbl) : tbl[i].openalex_id = openalex_id }

\* create_researcher_request, lines 413-427.
create_researcher_request_begin(req) ==
  /\ BagCardinality(inflight) < NumWorkers
  /\ IF MatchingRequest(researcher_requests, req.openalex_id) # {}
       THEN /\ last' = Response("create_researcher_request", 200, <<>>, <<>>, "existing")
            /\ UNCHANGED inflight
       ELSE /\ inflight' = Begin([op |-> "create_researcher_request", req |-> req])
            /\ UNCHANGED last
  /\ UNCHANGED <<subscriptions, researcher_requests, notifications>>
  /\ UNCHANGED ledger

\* create_researcher_request, lines 428-429: db.commit() under the unique
\* openalex_id, and the answer; the handler calls no notifier.
create_researcher_request_commit(s) ==
  /\ BagIn(s, inflight)
  /\ s.op = "create_researcher_request"
  /\ inflight' = End(s)
  /\ \/ /\ MatchingRequest(researcher_requests, s.req.openalex_id) # {}
        /\ last' = Response("create_researcher_request", 500, <<>>, <<>>, "IntegrityError")
        /\ UNCHANGED researcher_requests
     \/ /\ MatchingRequest(researcher_requests, s.req.openalex_id) = {}
        /\ researcher_requests' = Append(researcher_requests, s.req)
        /\ last' = Response("create_researcher_request", 200, <<>>, <<>>, "success")
     \/ /\ last' = Response("create_researcher_request", 500, <<>>, <<>>, "StorageFailure")
        /\ UNCHANGED researcher_requests
  /\ UNCHANGED <<subscriptions, notifications>>
  /\ UNCHANGED ledger

\* ------------------------------------------------------------ email_service
\* send_notification_background, lines 49-61: a daemon thread is started for
\* the message and the caller goes on; what the thread raises is logged.
send_notification_background(subject, body) ==
  Append(notifications, [subject |-> subject, body |-> body])

\* The latest rows of a table, newest first, limit of them at most.
Recent(tbl, limit) ==
  [k \in 1..Min({limit, Len(tbl)}) |-> tbl[Len(tbl) + 1 - k]]

\* build_dashboard_summary, lines 64-97, on the tables db holds.
build_dashboard_summary(db) ==
  [req_count |-> Len(db.researcher_requests),
   sub_count |-> Len(db.subscriptions),
   recent_reqs |-> Recent(db.researcher_requests, 5),
   recent_subs |-> Recent(db.subscriptions, 5)]

\* notify_new_subscription, lines 100-113.
notify_new_subscription(researcher_name, email, db) ==
  send_notification_background(
    [kind |-> "[WMG] New Subscription", name |-> researcher_name],
    [researcher |-> researcher_name, subscriber |-> email,
     summary |-> build_dashboard_summary(db)])

\* notify_new_researcher_request, lines 116-131.
notify_new_researcher_request(display_name, openalex_id, requester_email, db) ==
  send_notification_background(
    [kind |-> "[WMG] New Researcher Request", name |-> display_name],
    [researcher |-> display_name, openalex_id |-> openalex_id,
     requested_by |-> IF requester_email = <<>> THEN <<"A","n","o","n","y","m","o","u","s">>
                      ELSE requester_email,
     summary |-> build_dashboard_summary(db)])

\* The subscription and researcher-request routes, over empty tables.
NextSub ==
  \/ \E name \in NameInputs, email \in EmailInputs : create_subscription_begin(name, email)
  \/ \E s \in BagToSet(inflight) : create_subscription_commit(s)
  \/ \E req \in ResearcherRequestInputs : create_researcher_request_begin(req)
  \/ \E s \in BagToSet(inflight) : create_researcher_request_commit(s)

SpecSub == Init /\ [][NextSub]_vars

Next ==
  \/ \E g \in GrantInputs, r \in ResearcherInputs, a \in ActionInputs :
       record_vote_begin(g, r, a)
  \/ \E s \in BagToSet(inflight) : record_vote_commit(s)
  \/ \E g \in GrantInputs, r \in ResearcherInputs : delete_vote_begin(g, r)
  \/ \E s \in BagToSet(inflight) : delete_vote_commit(s)
  \/ \E g \in GrantInputs, r \in ResearcherInputs : get_researcher_vote(g, r)

Spec == Init /\ [][Next]_vars

\* ------------------------------------------------------------------ counts
\* sum(v.action == a for v in votes of grant g), as get_grant_votes counts.
CountAction(tbl, g, a) ==
  Cardinality({ i \in 1..Len(tbl) : tbl[i].grant_id = g /\ tbl[i].action = a })

\* The (pair, action) of every row, in storage order.
Actions(tbl) ==
  [i \in 1..Len(tbl) |-> <<tbl[i].grant_id, tbl[i].researcher_id, tbl[i].action>>]

\* =================================================================== claims

\* C1: in every state the ledger holds at most one row per (grant_id,
\* researcher_id) pair, and right after a successful record_vote on a pair it
\* holds exactly one row of that pair.
C1_OneRowPerPair ==
  /\ \A i, j \in 1..Len(votes) :
       (votes[i].grant_id = votes[j].grant_id
          /\ votes[i].researcher_id = votes[j].researcher_id) => i = j
  /\ (last.op = "record_vote" /\ last.status = 200)
       => Cardinality(Matching(votes, last.grant_id, last.researcher_id)) = 1

\* A record_vote has just succeeded on the pair of the first of two rows: that
\* row was there before the second one, so the request updated it in place.
C1_Witness ==
  /\ Len(votes) = 2
  /\ last.op = "record_vote" /\ last.status = 200
  /\ votes[1].grant_id = last.grant_id /\ votes[1].researcher_id = last.researcher_id

\* C2: concurrent record_vote requests on one pair serialize: no duplicate
\* row, and the row's action is the action of the request that committed last.
C2_LastCommitterWins ==
  \A i \in 1..Len(votes) :
    /\ Cardinality(Matching(votes, votes[i].grant_id, votes[i].researcher_id)) = 1
    /\ votes[i].action = Committed(votes[i].grant_id, votes[i].researcher_id)

\* C3: a record_vote that answers 400 or 500 leaves the table as it was.
C3_FailedVoteChangesNothing ==
  [][(last'.op = "record_vote" /\ last'.status \in {400, 500}) => votes' = votes]_vars

\* A record_vote has just failed at commit on the primary key, its pair's row
\* having been inserted by a concurrent request.
C3_Witness ==
  /\ last.op = "record_vote" /\ last.status = 500 /\ last.body = "IntegrityError"
  /\ Matching(votes, last.grant_id, last.researcher_id) # {}

\* C4: every stored grant_id is made of letters, digits, underscore and hyphen
\* only, every stored researcher_id of letters, digits, space, comma,
\* apostrophe and hyphen only.
C4_StoredIdsInClass ==
  \A i \in 1..Len(votes) :
    /\ \A k \in 1..Len(votes[i].grant_id) : votes[i].grant_id[k] \in GrantIdChars
    /\ \A k \in 1..Len(votes[i].researcher_id) :
         votes[i].researcher_id[k] \in ResearcherIdChars

\* C5: while the last committed write on a pair is a delete, a
\* get_researcher_vote on the pair answers action None and a delete_vote on
\* it answers 404.
C5_DeleteThenAbsent ==
  [][\A g \in GrantInputs, r \in ResearcherInputs :
       Committed(g, r) = "deleted" =>
         /\ get_researcher_vote(g, r) => (last'.status = 200 /\ last'.body = None)
         /\ delete_vote_begin(g, r) => last'.status = 404]_vars

\* A delete_vote has just answered 404 on a pair whose last committed write is
\* a delete.
C5_Witness ==
  /\ last.op = "delete_vote" /\ last.status = 404
  /\ Committed(last.grant_id, last.researcher_id) = "deleted"

\* C6: a successful record_vote whose action is the one last committed on its
\* pair changes no grant's like or dislike count and no row's action.
C6_SameActionIdempotent ==
  [][(/\ last'.op = "record_vote" /\ last'.status = 200
      /\ Committed(last'.grant_id, last'.researcher_id) = last'.body)
     => /\ Actions(votes') = Actions(votes)
        /\ \A g \in GrantInputs, a \in {"like", "dislike"} :
             CountAction(votes', g, a) = CountAction(votes, g, a)]_vars

\* C7: no step makes the timestamp of a pair's row older than it was.
C7_TimestampMonotonic ==
  [][\A i \in 1..Len(votes), j \in 1..Len(votes') :
       (votes[i].grant_id = votes'[j].grant_id
          /\ votes[i].researcher_id = votes'[j].researcher_id)
       => votes'[j].timestamp >= votes[i].timestamp]_vars

\* C8: for a limit of at least 1, get_top_grants returns min(limit, number of
\* grants) entries, one per grant_id, with likes falling, each with the
\* grant's own like and dislike counts, and no grant left out has more likes
\* than one returned.
C8_TopGrants ==
  (last.op = "get_top_grants" /\ last.body.limit >= 1) =>
    LET rows == last.body.rows
        grants == { votes[i].grant_id : i \in 1..Len(votes) }
        returned == { rows[i].grant_id : i \in 1..Len(rows) }
    IN  /\ Len(rows) = Min({last.body.limit, Cardinality(grants)})
        /\ \A i, j \in 1..Len(rows) : rows[i].grant_id = rows[j].grant_id => i = j
        /\ \A i, j \in 1..Len(rows) : i < j => rows[i].likes >= rows[j].likes
        /\ \A i \in 1..Len(rows) :
             /\ rows[i].grant_id \in grants
             /\ rows[i].likes = CountAction(votes, rows[i].grant_id, "like")
             /\ rows[i].dislikes = CountAction(votes, rows[i].grant_id, "dislike")
        /\ \A g \in grants \ returned : \A i \in 1..Len(rows) :
             CountAction(votes, g, "like") <= rows[i].likes

\* Three grants with A between B and %41 in likes, asked with limit 2: the
\* answer is [%41, A].
C8_Witness ==
  /\ last.op = "get_top_grants" /\ last.body.limit = 2
  /\ CountAction(votes, <<"B">>, "like") >= 1
  /\ CountAction(votes, <<"B">>, "like") < CountAction(votes, <<"A">>, "like")
  /\ CountAction(votes, <<"A">>, "like") < CountAction(votes, <<"%","4","1">>, "like")
  /\ Len(last.body.rows) = 2
  /\ last.body.rows[1].grant_id = <<"%","4","1">>
  /\ last.body.rows[2].grant_id = <<"A">>

\* C9: for a grant id that passes validation, vote_ratio answers 200 with the
\* grant's like and dislike counts and the percentages count/(likes+dislikes)
\* *100, both 0.0 when the grant has no vote; 3 likes and 1 dislike give 75.0
\* and 25.0.
C9_VoteRatio ==
  (last.op = "vote_ratio" /\ last.status # 400) =>
    LET likes == CountAction(votes, last.grant_id, "like")
        dislikes == CountAction(votes, last.grant_id, "dislike")
        total == likes + dislikes
    IN  /\ last.status = 200
        /\ last.body.likes = likes
        /\ last.body.dislikes = dislikes
        /\ last.body.like_percentage.den > 0
        /\ last.body.dislike_percentage.den > 0
        /\ last.body.like_percentage.num * total
             = 100 * likes * last.body.like_percentage.den
        /\ last.body.dislike_percentage.num * total
             = 100 * dislikes * last.body.dislike_percentage.den
        /\ total = 0 =>
             /\ last.body.like_percentage = [num |-> 0, den |-> 1]
             /\ last.body.dislike_percentage = [num |-> 0, den |-> 1]
        /\ (likes = 3 /\ dislikes = 1) =>
             /\ last.body.like_percentage = [num |-> 75, den |-> 1]
             /\ last.body.dislike_percentage = [num |-> 25, den |-> 1]

\* vote_ratio has answered for a grant with 3 likes and 1 dislike.
C9_Witness ==
  /\ last.op = "vote_ratio" /\ last.status = 200
  /\ last.body.likes = 3 /\ last.body.dislikes = 1
  /\ last.body.like_percentage = [num |-> 75, den |-> 1]

\* ---------------------------------------------- reading the exports back
\* The tokens of a JSON text: the strings, unescaped, and the punctuation.
RECURSIVE JsonLexString(_, _, _)
JsonLexString(text, i, acc) ==
  IF i > Len(text) THEN [value |-> acc, next |-> i, closed |-> FALSE]
  ELSE IF text[i] = "\"" THEN [value |-> acc, next |-> i + 1, closed |-> TRUE]
  ELSE IF text[i] = "\\" /\ i < Len(text)
    THEN JsonLexString(text, i + 2,
           Append(acc, CASE text[i + 1] = "n" -> "\n"
                         [] text[i + 1] = "r" -> "\r"
                         [] OTHER -> text[i + 1]))
  ELSE JsonLexString(text, i + 1, Append(acc, text[i]))

RECURSIVE JsonLex(_, _, _)
JsonLex(text, i, acc) ==
  IF i > Len(text) THEN acc
  ELSE IF text[i] = " " THEN JsonLex(text, i + 1, acc)
  ELSE IF text[i] = "\""
    THEN LET str == JsonLexString(text, i + 1, <<>>)
         IN  JsonLex(text, str.next,
                     Append(acc, [t |-> IF str.closed THEN "str" ELSE "bad", v |-> str.value]))
  ELSE JsonLex(text, i + 1, Append(acc, [t |-> text[i], v |-> <<>>]))

\* The value of key k among the members key, ":", value, ",", ... of an object.
RECURSIVE JsonMember(_, _)
JsonMember(members, k) ==
  IF Len(members) < 3 THEN <<>>
  ELSE IF members[1].t = "str" /\ members[1].v = k /\ members[2].t = ":"
            /\ members[3].t = "str"
    THEN << members[3].v >>
  ELSE JsonMember(SubSeq(members, 5, Len(members)), k)

\* The vote of the tokens of one object, or <<>> when a column is missing.
JsonVote(members) ==
  LET g == JsonMember(members, K_grant_id)
      r == JsonMember(members, K_researcher_id)
      a == JsonMember(members, K_action)
      t == JsonMember(members, K_timestamp)
  IN  IF g = <<>> \/ r = <<>> \/ a = <<>> \/ t = <<>> \/ Len(members) # 15
        THEN <<>> ELSE << <<g[1], r[1], a[1], t[1]>> >>

\* The vote of a chunk that is one JSON object, or <<>>.
JsonObject(chunk) ==
  LET toks == JsonLex(chunk, 1, <<>>)
  IN  IF Len(toks) >= 2 /\ toks[1].t = "{" /\ toks[Len(toks)].t = "}"
        THEN JsonVote(SubSeq(toks, 2, Len(toks) - 1))
        ELSE <<>>

\* The votes of a JSON array streamed in chunks, read chunk by chunk: "[",
\* then objects with a "," between them, then "]".
JsonVotes(chunks) ==
  LET n == Len(chunks)
      m == n - 2
  IN  IF /\ n >= 2
         /\ chunks[1] = <<"[">>
         /\ chunks[n] = <<"]">>
         /\ (m = 0 \/ m % 2 = 1)
         /\ \A k \in 1..m : IF k % 2 = 0 THEN chunks[k + 1] = <<",">>
                            ELSE JsonObject(chunks[k + 1]) # <<>>
        THEN [ok |-> TRUE,
              rows |-> [k \in 1..((m + 1) \div 2) |-> JsonObject(chunks[2 * k])[1]]]
        ELSE [ok |-> FALSE, rows |-> <<>>]

\* The records of a piece of CSV text, read as csv.reader reads them: text
\* from position i on, the field and the record being read, inside quotes or
\* not.
RECURSIVE CsvRecords(_, _, _, _, _, _)
CsvRecords(text, i, field, record, records, quoted) ==
  IF i > Len(text)
    THEN IF field = <<>> /\ record = <<>> THEN records
         ELSE Append(records, Append(record, field))
  ELSE IF quoted
    THEN IF text[i] = "\""
           THEN IF i < Len(text) /\ text[i + 1] = "\""
                  THEN CsvRecords(text, i + 2, Append(field, "\""), record, records, TRUE)
                  ELSE CsvRecords(text, i + 1, field, record, records, FALSE)
           ELSE CsvRecords(text, i + 1, Append(field, text[i]), record, records, TRUE)
  ELSE IF text[i] = "\"" /\ field = <<>>
    THEN CsvRecords(text, i + 1, field, record, records, TRUE)
  ELSE IF text[i] = ","
    THEN CsvRecords(text, i + 1, <<>>, Append(record, field), records, FALSE)
  ELSE IF text[i] = "\r" /\ i < Len(text) /\ text[i + 1] = "\n"
    THEN CsvRecords(text, i + 2, <<>>, <<>>, Append(records, Append(record, field)), FALSE)
  ELSE IF text[i] = "\n" \/ text[i] = "\r"
    THEN CsvRecords(text, i + 1, <<>>, <<>>, Append(records, Append(record, field)), FALSE)
  ELSE CsvRecords(text, i + 1, Append(field, text[i]), record, records, FALSE)

\* The records of a CSV document streamed in chunks, read chunk by chunk.
RECURSIVE CsvDocument(_)
CsvDocument(chunks) ==
  IF chunks = <<>> THEN <<>>
  ELSE CsvRecords(Head(chunks), 1, <<>>, <<>>, <<>>, FALSE) \o CsvDocument(Tail(chunks))

\* The rows of the table as the exports render them.
Rendered(tbl) ==
  { <<tbl[i].grant_id, tbl[i].researcher_id, ActionChars(tbl[i].action),
      isoformat(tbl[i].timestamp)>> : i \in 1..Len(tbl) }

\* C10: the votes read back from the JSON export and the records read back
\* from the CSV export after its header are the rows of the ledger, each once;
\* the empty ledger gives the text [] and the header line alone.
C10_ExportsComplete ==
  /\ last.op = "export_json" =>
       LET text == Concat(last.body)
           parsed == JsonVotes(last.body)
       IN  /\ parsed.ok
           /\ { parsed.rows[i] : i \in 1..Len(parsed.rows) } = Rendered(votes)
           /\ Len(parsed.rows) = Len(votes)
           /\ votes = <<>> => text = <<"[", "]">>
  /\ last.op = "export_csv" =>
       LET text == Concat(last.body)
           records == CsvDocument(last.body)
       IN  /\ Len(records) = Len(votes) + 1
           /\ records[1] = <<K_grant_id, K_researcher_id, K_action, K_timestamp>>
           /\ { records[i] : i \in 2..Len(records) } = Rendered(votes)
           /\ votes = <<>> =>
                text = K_grant_id \o <<",">> \o K_researcher_id \o <<",">> \o K_action
                         \o <<",">> \o K_timestamp \o <<"\r", "\n">>

\* The CSV export of a ledger with a researcher id that holds a comma and one
\* that ends in a line feed.
C10_Witness ==
  /\ last.op = "export_csv"
  /\ \E i \in 1..Len(votes) : votes[i].researcher_id = <<"X", ",", " ", "Y">>
  /\ \E i \in 1..Len(votes) : votes[i].researcher_id = <<"R", "\n">>

\* The tables a session sees after the step.
DbAfter == [subscriptions |-> subscriptions', researcher_requests |-> researcher_requests']

\* C11: a step of create_subscription or create_researcher_request that
\* creates a row starts the notification thread for that row, and the request
\* answers success whatever becomes of the sending.
C11_CreationNotifies ==
  [][/\ Len(subscriptions') > Len(subscriptions) =>
          LET row == subscriptions'[Len(subscriptions')]
          IN  /\ notifications' = notify_new_subscription(row.researcher_name, row.email, DbAfter)
              /\ last'.status = 200
     /\ Len(researcher_requests') > Len(researcher_requests) =>
          LET row == researcher_requests'[Len(researcher_requests')]
          IN  /\ notifications' = notify_new_researcher_request(
                     row.display_name, row.openalex_id, row.requester_email, DbAfter)
              /\ last'.status = 200]_vars

\* C12: no pair (researcher_name, email) has two subscription rows, and a
\* create_subscription request that answers for a pair that has a row answers
\* already_subscribed with status 200, the store's own failures apart.
C12_AlreadySubscribedNotError ==
  [][/\ \A name \in NameInputs, email \in EmailInputs :
          Cardinality(MatchingSubscription(subscriptions', name, email)) <= 1
     /\ \A name \in NameInputs, email \in EmailInputs :
          ( /\ MatchingSubscription(subscriptions, name, email) # {}
            /\ \/ create_subscription_begin(name, email) /\ last' # last
               \/ \E s \in BagToSet(inflight) :
                    /\ s.op = "create_subscription"
                    /\ s.researcher_name = name /\ s.email = email
                    /\ create_subscription_commit(s)
            /\ last'.body # "StorageFailure" )
          => (last'.status = 200 /\ last'.body = "already_subscribed")]_vars

\* The pairs that have a row in a table, and the rows of a pair.
PairsOf(tbl) == { <<tbl[i].grant_id, tbl[i].researcher_id>> : i \in 1..Len(tbl) }

RowsOf(tbl, p) == { tbl[i] : i \in Matching(tbl, p[1], p[2]) }

\* C13: a step changes the votes table only as the commit of a record_vote or
\* delete_vote session, and then only the row of that session's pair (its
\* existence, action and timestamp); a pair loses its row only by the commit of
\* a delete_vote on that pair; so no read, validation or lookup changes a row.
C13_FrameEffect ==
  [][LET changed == { p \in PairsOf(votes) \cup PairsOf(votes') :
                        RowsOf(votes, p) # RowsOf(votes', p) }
         gone == { p \in PairsOf(votes) : RowsOf(votes', p) = {} }
     IN  /\ votes' # votes =>
               \E s \in BagToSet(inflight) :
                 /\ record_vote_commit(s) \/ delete_vote_commit(s)
                 /\ changed \subseteq { <<s.grant_id, s.researcher_id>> }
         /\ gone # {} =>
               \E s \in BagToSet(inflight) :
                 /\ delete_vote_commit(s)
                 /\ gone = { <<s.grant_id, s.researcher_id>> }]_vars

\* A delete_vote has removed the row of its pair while another pair has a row.
C13_Witness ==
  /\ last.op = "delete_vote" /\ last.status = 200
  /\ <<last.grant_id, last.researcher_id>> \notin PairsOf(votes)
  /\ PairsOf(votes) # {}

====
